---------------------------- MODULE Spec2Model ----------------------------
(***************************************************************************)
(* A model of the ztensor crate: its extended-integer arithmetic           *)
(*   OmegaInt<N>  (src/src/omega_int.rs)   Integer(n) | POmega | MOmega    *)
(*   OmegaUInt<N> (src/src/omega_uint.rs)  Natural(n) | Omega              *)
(* and its lazy tensors (src/src/ztensor_traits.rs, ztensor_impls.rs,      *)
(* to_nalg_mat.rs), here of two dimensions.                                *)
(* The underlying type N is a two's-complement integer of Bits bits        *)
(* (signed) or UBits bits (unsigned).  Every operation of the crate is a   *)
(* pure function; an action of the model calls one operation on operands   *)
(* drawn from the whole value set and records the call and its outcome.    *)
(***************************************************************************)
EXTENDS Integers, Sequences, FiniteSets, TLC

VARIABLES
    overflow_checks,  \* build profile: rustc's overflow-checks (debug: TRUE)
    op,               \* the operation called last
    lhs,              \* its receiver / left operand
    rhs,              \* its right operand (NoOperand for a unary operation)
    res,              \* its outcome: Some(v), None, a bare value, or Panic
    evaluated         \* the index pairs at which the call ran a value getter

vars == <<overflow_checks, op, lhs, rhs, res, evaluated>>

(***************************************************************************)
(* Bounds: the width of the underlying integer types.                      *)
(***************************************************************************)
Bits == 3
UBits == 3

MinInt == -(2 ^ (Bits - 1))
MaxInt == (2 ^ (Bits - 1)) - 1
NInt == MinInt .. MaxInt

MaxUInt == (2 ^ UBits) - 1
NUInt == 0 .. MaxUInt

(***************************************************************************)
(* Values.                                                                 *)
(***************************************************************************)
Integer(n) == [tag |-> "Integer", val |-> n]
POmega == [tag |-> "POmega"]
MOmega == [tag |-> "MOmega"]
OmegaIntValues == {Integer(n) : n \in NInt} \cup {POmega, MOmega}

Natural(n) == [tag |-> "Natural", val |-> n]
Omega == [tag |-> "Omega"]
OmegaUIntValues == {Natural(n) : n \in NUInt} \cup {Omega}

Some(v) == [some |-> TRUE, val |-> v]
None == [some |-> FALSE]
Panic == [panic |-> TRUE]
NoOperand == [tag |-> "NoOperand"]

SignPairs == {-1, 0, 1} \X {-1, 0, 1}

(***************************************************************************)
(* The underlying type N: num_traits' checked operations and the sign      *)
(* inspection of a primitive signed integer of Bits bits.                  *)
(***************************************************************************)
AbsVal(x) == IF x < 0 THEN -x ELSE x

\* Rust's integer division truncates toward zero.
TruncDiv(a, b) ==
    IF (a < 0) = (b < 0) THEN AbsVal(a) \div AbsVal(b)
    ELSE -(AbsVal(a) \div AbsVal(b))

N_checked_add(a, b) == IF a + b \in NInt THEN Some(a + b) ELSE None
N_checked_sub(a, b) == IF a - b \in NInt THEN Some(a - b) ELSE None
N_checked_mul(a, b) == IF a * b \in NInt THEN Some(a * b) ELSE None
N_checked_div(a, b) ==
    IF b = 0 THEN None
    ELSE IF TruncDiv(a, b) \in NInt THEN Some(TruncDiv(a, b)) ELSE None

\* -x on a primitive.  The one value without a negation, MinInt, makes -x
\* panic under overflow checks ("attempt to negate with overflow") and wrap
\* to MinInt without them.
N_neg_panics(x, checks) == checks /\ -x \notin NInt

N_neg(x) == ((-x + 2 ^ (Bits - 1)) % (2 ^ Bits)) - 2 ^ (Bits - 1)

PrimGetSign_get_sign(x) ==
    IF x > 0 THEN 1
    ELSE IF x < 0 THEN -1
    ELSE 0

(***************************************************************************)
(* OmegaInt.                                                               *)
(***************************************************************************)
is_pmomega(v) ==
    CASE v = POmega -> 1
      [] v = MOmega -> -1
      [] OTHER -> 0

GetSign_get_sign(v) ==
    CASE v = POmega -> 1
      [] v = MOmega -> -1
      [] OTHER -> PrimGetSign_get_sign(v.val)

\* op, omega_checker and sign_checker are the closures passed in, as
\* functions of a pair.
omega_int_chkd_op(l, r, f, omega_checker, chk_zero, sign_checker, value_if_op_overflow) ==
    LET lhs_osp == is_pmomega(l)
        rhs_osp == is_pmomega(r)
    IN  IF <<lhs_osp, rhs_osp>> # <<0, 0>> THEN omega_checker[<<lhs_osp, rhs_osp>>]
        ELSE IF l.tag # "Integer" \/ r.tag # "Integer" THEN Panic
        ELSE IF chk_zero
                /\ ~(PrimGetSign_get_sign(l.val) # 0 /\ GetSign_get_sign(r) # 0)
             THEN sign_checker[<<PrimGetSign_get_sign(l.val), GetSign_get_sign(r)>>]
        ELSE IF f[<<l.val, r.val>>].some THEN Some(Integer(f[<<l.val, r.val>>].val))
        ELSE value_if_op_overflow

empty_sign_checker == [s \in SignPairs |-> None]

\* Mutant: a finite value plus MOmega gives POmega.
add_omega_checker_always_pomega(s0, s1) ==
    IF s0 = 0 THEN
        (IF s1 = 1 THEN Some(POmega)
         ELSE IF s1 = -1 THEN Some(POmega)
         ELSE Panic)
    ELSE IF s1 = 0 THEN
        (IF s0 = 1 THEN Some(POmega)
         ELSE IF s0 = -1 THEN Some(MOmega)
         ELSE Panic)
    ELSE IF s0 = 1 /\ s1 = 1 THEN Some(POmega)
    ELSE IF s0 = -1 /\ s1 = -1 THEN Some(POmega)
    ELSE None

add_omega_checker(s0, s1) ==
    IF s0 = 0 THEN
        (IF s1 = 1 THEN Some(POmega)
         ELSE IF s1 = -1 THEN Some(MOmega)
         ELSE Panic)
    ELSE IF s1 = 0 THEN
        (IF s0 = 1 THEN Some(POmega)
         ELSE IF s0 = -1 THEN Some(MOmega)
         ELSE Panic)
    ELSE IF s0 = 1 /\ s1 = 1 THEN Some(POmega)
    ELSE IF s0 = -1 /\ s1 = -1 THEN Some(POmega)
    ELSE None

\* Mutant: an overflowing finite sum saturates to POmega.
OmegaInt_checked_add_saturating(a, b) ==
    omega_int_chkd_op(a, b,
        [p \in NInt \X NInt |-> N_checked_add(p[1], p[2])],
        [s \in SignPairs |-> add_omega_checker(s[1], s[2])],
        FALSE, empty_sign_checker,
        Some(POmega))

OmegaInt_checked_add(a, b) ==
    omega_int_chkd_op(a, b,
        [p \in NInt \X NInt |-> N_checked_add(p[1], p[2])],
        [s \in SignPairs |-> add_omega_checker(s[1], s[2])],
        FALSE, empty_sign_checker,
        None)

\* Mutant: a finite value minus an infinity keeps the sign of the infinity.
sub_omega_checker_unflipped(s0, s1) ==
    IF s0 = 0 THEN
        (IF s1 = 1 THEN Some(POmega)
         ELSE IF s1 = -1 THEN Some(MOmega)
         ELSE Panic)
    ELSE IF s1 = 0 THEN
        (IF s0 = 1 THEN Some(POmega)
         ELSE IF s0 = -1 THEN Some(MOmega)
         ELSE Panic)
    ELSE IF s0 = 1 /\ s1 = -1 THEN Some(POmega)
    ELSE IF s0 = -1 /\ s1 = 1 THEN Some(POmega)
    ELSE None

sub_omega_checker(s0, s1) ==
    IF s0 = 0 THEN
        (IF s1 = 1 THEN Some(MOmega)
         ELSE IF s1 = -1 THEN Some(POmega)
         ELSE Panic)
    ELSE IF s1 = 0 THEN
        (IF s0 = 1 THEN Some(POmega)
         ELSE IF s0 = -1 THEN Some(MOmega)
         ELSE Panic)
    ELSE IF s0 = 1 /\ s1 = -1 THEN Some(POmega)
    ELSE IF s0 = -1 /\ s1 = 1 THEN Some(POmega)
    ELSE None

OmegaInt_checked_sub(a, b) ==
    omega_int_chkd_op(a, b,
        [p \in NInt \X NInt |-> N_checked_sub(p[1], p[2])],
        [s \in SignPairs |-> sub_omega_checker(s[1], s[2])],
        FALSE, empty_sign_checker,
        None)

\* match x.get_sign() { 1 => Some(pos), -1 => Some(neg), 0 => None, _ => panic!() }
match_sign(x, pos, neg) ==
    CASE PrimGetSign_get_sign(x) = 1 -> Some(pos)
      [] PrimGetSign_get_sign(x) = -1 -> Some(neg)
      [] PrimGetSign_get_sign(x) = 0 -> None
      [] OTHER -> Panic

\* Mutant: Integer(x) * MOmega takes the sign rule of Integer(x) * POmega.
OmegaInt_checked_mul_rhs_sign_lost(a, b) ==
    CASE a = POmega ->
            (CASE b = POmega -> Some(POmega)
               [] b = MOmega -> Some(MOmega)
               [] OTHER -> match_sign(b.val, POmega, MOmega))
      [] a = MOmega ->
            (CASE b = POmega -> Some(MOmega)
               [] b = MOmega -> Some(POmega)
               [] OTHER -> match_sign(b.val, MOmega, POmega))
      [] OTHER ->
            (CASE b = POmega -> match_sign(a.val, POmega, MOmega)
               [] b = MOmega -> match_sign(a.val, POmega, MOmega)
               [] OTHER ->
                    IF N_checked_mul(a.val, b.val).some
                    THEN Some(Integer(N_checked_mul(a.val, b.val).val))
                    ELSE None)

OmegaInt_checked_mul(a, b) ==
    CASE a = POmega ->
            (CASE b = POmega -> Some(POmega)
               [] b = MOmega -> Some(MOmega)
               [] OTHER -> match_sign(b.val, POmega, MOmega))
      [] a = MOmega ->
            (CASE b = POmega -> Some(MOmega)
               [] b = MOmega -> Some(POmega)
               [] OTHER -> match_sign(b.val, MOmega, POmega))
      [] OTHER ->
            (CASE b = POmega -> match_sign(a.val, POmega, MOmega)
               [] b = MOmega -> match_sign(a.val, MOmega, POmega)
               [] OTHER ->
                    IF N_checked_mul(a.val, b.val).some
                    THEN Some(Integer(N_checked_mul(a.val, b.val).val))
                    ELSE None)

OmegaInt_zero == Integer(0)

\* Mutant: MOmega divided by a finite value ignores the sign of the dividend.
OmegaInt_checked_div_dividend_sign_lost(a, b) ==
    CASE a = POmega ->
            (CASE b = POmega -> None
               [] b = MOmega -> None
               [] OTHER -> match_sign(b.val, POmega, MOmega))
      [] a = MOmega ->
            (CASE b = POmega -> None
               [] b = MOmega -> None
               [] OTHER -> match_sign(b.val, POmega, MOmega))
      [] OTHER ->
            (CASE b = POmega -> Some(OmegaInt_zero)
               [] b = MOmega -> Some(OmegaInt_zero)
               [] OTHER ->
                    IF N_checked_div(a.val, b.val).some
                    THEN Some(Integer(N_checked_div(a.val, b.val).val))
                    ELSE None)

OmegaInt_checked_div(a, b) ==
    CASE a = POmega ->
            (CASE b = POmega -> None
               [] b = MOmega -> None
               [] OTHER -> match_sign(b.val, POmega, MOmega))
      [] a = MOmega ->
            (CASE b = POmega -> None
               [] b = MOmega -> None
               [] OTHER -> match_sign(b.val, MOmega, POmega))
      [] OTHER ->
            (CASE b = POmega -> Some(OmegaInt_zero)
               [] b = MOmega -> Some(OmegaInt_zero)
               [] OTHER ->
                    IF N_checked_div(a.val, b.val).some
                    THEN Some(Integer(N_checked_div(a.val, b.val).val))
                    ELSE None)

\* Mutant: the negation of MOmega is MOmega.
OmegaInt_neg_momega_kept(v, checks) ==
    CASE v = POmega -> MOmega
      [] v = MOmega -> MOmega
      [] OTHER ->
            IF N_neg_panics(v.val, checks) THEN Panic
            ELSE Integer(N_neg(v.val))

\* The outcome of -v: a value, or Panic when -x panics.
OmegaInt_neg(v, checks) ==
    CASE v = POmega -> MOmega
      [] v = MOmega -> POmega
      [] OTHER ->
            IF N_neg_panics(v.val, checks) THEN Panic
            ELSE Integer(N_neg(v.val))

(***************************************************************************)
(* OmegaUInt.                                                              *)
(***************************************************************************)
U_checked_add(a, b) == IF a + b \in NUInt THEN Some(a + b) ELSE None
U_checked_sub(a, b) == IF a - b \in NUInt THEN Some(a - b) ELSE None
U_checked_mul(a, b) == IF a * b \in NUInt THEN Some(a * b) ELSE None
U_checked_div(a, b) == IF b = 0 THEN None ELSE Some(a \div b)

is_omega(v) == v = Omega

OmegaUInt_is_zero(v) == IF v = Omega THEN FALSE ELSE v.val = 0

omega_uint_chkd_op(l, r, f, value_if_only_lhs_omega, value_if_only_rhs_omega, value_if_lhs_rhs_omega, chk_zero, value_if_only_lhs_zero, value_if_only_rhs_zero, value_if_lhs_rhs_zero, value_if_op_overflow) ==
    LET is_lhs_omega == (l = Omega)
        is_rhs_omega == (r = Omega)
    IN  IF is_lhs_omega /\ ~is_rhs_omega THEN value_if_only_lhs_omega
        ELSE IF ~is_lhs_omega /\ is_rhs_omega THEN value_if_only_rhs_omega
        ELSE IF is_lhs_omega /\ is_rhs_omega THEN value_if_lhs_rhs_omega
        ELSE IF l.tag # "Natural" \/ r.tag # "Natural" THEN Panic
        ELSE IF chk_zero /\ l.val = 0 /\ r.val # 0 THEN value_if_only_lhs_zero
        ELSE IF chk_zero /\ l.val # 0 /\ r.val = 0 THEN value_if_only_rhs_zero
        ELSE IF chk_zero /\ l.val = 0 /\ r.val = 0 THEN value_if_lhs_rhs_zero
        ELSE IF f[<<l.val, r.val>>].some THEN Some(Natural(f[<<l.val, r.val>>].val))
        ELSE value_if_op_overflow

\* Mutant: a finite value divided by Omega has no result, as for the difference.
OmegaUInt_checked_div_rhs_omega(a, b) ==
    omega_uint_chkd_op(a, b,
        [p \in NUInt \X NUInt |-> U_checked_div(p[1], p[2])],
        Some(Omega),
        None,
        None,
        TRUE,
        Some(Natural(0)),
        None,
        None,
        None)

OmegaUInt_checked_div(a, b) ==
    omega_uint_chkd_op(a, b,
        [p \in NUInt \X NUInt |-> U_checked_div(p[1], p[2])],
        Some(Omega),
        Some(Natural(0)),
        None,
        TRUE,
        Some(Natural(0)),
        None,
        None,
        None)

OmegaUInt_checked_add(a, b) ==
    omega_uint_chkd_op(a, b,
        [p \in NUInt \X NUInt |-> U_checked_add(p[1], p[2])],
        Some(Omega),
        Some(Omega),
        Some(Omega),
        FALSE,
        None,
        None,
        None,
        Some(Omega))

\* Mutant: a finite value minus Omega is Omega, as for the sum.
OmegaUInt_checked_sub_rhs_omega(a, b) ==
    omega_uint_chkd_op(a, b,
        [p \in NUInt \X NUInt |-> U_checked_sub(p[1], p[2])],
        Some(Omega),
        Some(Omega),
        None,
        FALSE, None, None, None, None)

OmegaUInt_checked_sub(a, b) ==
    omega_uint_chkd_op(a, b,
        [p \in NUInt \X NUInt |-> U_checked_sub(p[1], p[2])],
        Some(Omega),
        None,
        None,
        FALSE, None, None, None, None)

OmegaUInt_checked_mul(a, b) ==
    IF (OmegaUInt_is_zero(a) /\ is_omega(b)) \/ (is_omega(a) /\ OmegaUInt_is_zero(b))
    THEN None
    ELSE omega_uint_chkd_op(a, b,
            [p \in NUInt \X NUInt |-> U_checked_mul(p[1], p[2])],
            Some(Omega),
            None,
            None,
            FALSE, None, None, None, None)

(***************************************************************************)
(* The operators +, -, *, / of both types: the checked form, with no       *)
(* result turned into a panic.                                             *)
(***************************************************************************)
\* match c { Some(y) => return y, None => panic!(..) }; a panic of the
\* checked form itself propagates.
unwrap_or_panic(c) ==
    IF c = Panic THEN Panic
    ELSE IF c = None THEN Panic
    ELSE c.val

OmegaInt_add(a, b) == unwrap_or_panic(OmegaInt_checked_add(a, b))

OmegaInt_sub(a, b) == unwrap_or_panic(OmegaInt_checked_sub(a, b))

OmegaInt_mul(a, b) == unwrap_or_panic(OmegaInt_checked_mul(a, b))

\* Mutant: a division without result returns zero.
OmegaInt_div_or_zero(a, b) ==
    IF OmegaInt_checked_div(a, b) = None THEN OmegaInt_zero
    ELSE unwrap_or_panic(OmegaInt_checked_div(a, b))

OmegaInt_div(a, b) == unwrap_or_panic(OmegaInt_checked_div(a, b))

OmegaUInt_add(a, b) == unwrap_or_panic(OmegaUInt_checked_add(a, b))

OmegaUInt_sub(a, b) == unwrap_or_panic(OmegaUInt_checked_sub(a, b))

OmegaUInt_mul(a, b) == unwrap_or_panic(OmegaUInt_checked_mul(a, b))

OmegaUInt_div(a, b) == unwrap_or_panic(OmegaUInt_checked_div(a, b))

(***************************************************************************)
(* Tensors.  FiniteIndex is the underlying signed type (NInt), OmegaIndex  *)
(* is OmegaInt over it, Elem a complex number.  A ZTensor<2> is its two    *)
(* index ranges and its value getter; a value getter is a closure, kept as *)
(* the record of what it captured, and called by call_value_getter.        *)
(***************************************************************************)
Complex(re, im) == [re |-> re, im |-> im]

conj(z) == Complex(z.re, -z.im)

Range(s, e) == [start |-> s, end |-> e]

\* The value getters a user of the crate passes in: those of the crate's
\* tests, both total.
UserValueGetters == {"re_im_of_index", "i_plus_10j"}

user_value_getter(g, i, j) ==
    CASE g = "re_im_of_index" -> Complex(i, j)
      [] g = "i_plus_10j" -> Complex(i + j * 10, 0)

UserClosure(g) == [kind |-> "user", g |-> g]

\* x as usize and u as FiniteIndex: usize has the width of FiniteIndex.
as_usize(x) == x % (2 ^ Bits)

as_FiniteIndex(u) == ((u + 2 ^ (Bits - 1)) % (2 ^ Bits)) - 2 ^ (Bits - 1)

\* A DMatrix: its shape and its cells.
DMatrix(nrows, ncols, cells) == [nrows |-> nrows, ncols |-> ncols, cells |-> cells]

CellIndices(nrows, ncols) == (0 .. nrows - 1) \X (0 .. ncols - 1)

\* mat[(r, c)]: panics out of bounds.
DMatrix_index(mat, r, c) ==
    IF r < mat.nrows /\ c < mat.ncols THEN mat.cells[<<r, c>>] ELSE Panic

\* Mutant: the closure of conj_trans calls the captured getter at (i, j).
RECURSIVE call_value_getter_untransposed(_, _, _)
call_value_getter_untransposed(c, i, j) ==
    CASE c.kind = "user" -> user_value_getter(c.g, i, j)
      [] c.kind = "get_slice" -> call_value_getter_untransposed(c.self2.value_getter, i, j)
      [] c.kind = "conj_trans" ->
            IF call_value_getter_untransposed(c.valget, i, j) = Panic THEN Panic
            ELSE conj(call_value_getter_untransposed(c.valget, i, j))
      [] c.kind = "nalgebra_mat_to_zmat" -> DMatrix_index(c.mat, as_usize(i), as_usize(j))

RECURSIVE call_value_getter(_, _, _)
call_value_getter(c, i, j) ==
    CASE c.kind = "user" -> user_value_getter(c.g, i, j)
      [] c.kind = "get_slice" -> call_value_getter(c.self2.value_getter, i, j)
      [] c.kind = "conj_trans" ->
            IF call_value_getter(c.valget, j, i) = Panic THEN Panic
            ELSE conj(call_value_getter(c.valget, j, i))
      [] c.kind = "nalgebra_mat_to_zmat" -> DMatrix_index(c.mat, as_usize(i), as_usize(j))

get_index_ranges(t) == t.index_ranges

get_single_elem(t, i, j) == call_value_getter(t.value_getter, i, j)

from_ranges_values(ranges, value_getter) ==
    [index_ranges |-> ranges, value_getter |-> value_getter]

\* Mutant: the slice keeps the ranges of the tensor it was taken from.
get_slice_ranges_kept(t, ranges) ==
    from_ranges_values(t.index_ranges, [kind |-> "get_slice", self2 |-> t])

get_slice(t, ranges) ==
    from_ranges_values(ranges, [kind |-> "get_slice", self2 |-> t])

\* Mutant: the second range is taken for both dimensions.
conj_trans_range_typo(t) ==
    from_ranges_values(<<t.index_ranges[2], t.index_ranges[2]>>,
                       [kind |-> "conj_trans", valget |-> t.value_getter])

conj_trans(t) ==
    from_ranges_values(<<t.index_ranges[2], t.index_ranges[1]>>,
                       [kind |-> "conj_trans", valget |-> t.value_getter])

\* The number of closures a value getter is nested in.
RECURSIVE closure_depth(_)
closure_depth(c) ==
    CASE c.kind = "get_slice" -> 1 + closure_depth(c.self2.value_getter)
      [] c.kind = "conj_trans" -> 1 + closure_depth(c.valget)
      [] OTHER -> 0

IsTensor(v) == DOMAIN v = {"index_ranges", "value_getter"}

IsMatrix(v) == DOMAIN v = {"nrows", "ncols", "cells"}

(***************************************************************************)
(* The bridge to nalgebra's dense matrices.                                *)
(***************************************************************************)
\* a + b on FiniteIndex: panics on overflow under overflow checks, wraps
\* without them.
N_add_panics(a, b, checks) == checks /\ a + b \notin NInt

N_add(a, b) == ((a + b + 2 ^ (Bits - 1)) % (2 ^ Bits)) - 2 ^ (Bits - 1)

\* ranges.map(|r| r.end - r.start)
ranges_len(t) ==
    [k \in {1, 2} |-> OmegaInt_sub(t.index_ranges[k].end, t.index_ranges[k].start)]

\* The panics of to_nalg_mat before DMatrix::from_fn: in r.end - r.start, on
\* a length that is infinite or negative, on a start that is infinite.
to_nalg_mat_panics_early(t) ==
    \/ \E k \in {1, 2} :
            \/ ranges_len(t)[k] = Panic
            \/ ranges_len(t)[k].tag # "Integer"
            \/ ranges_len(t)[k].val < 0
    \/ \E k \in {1, 2} : t.index_ranges[k].start.tag # "Integer"

\* Mutant: the length counts the end of the range in.
finite_len_inclusive(t) == [k \in {1, 2} |-> as_usize(ranges_len(t)[k].val + 1)]

finite_len(t) == [k \in {1, 2} |-> as_usize(ranges_len(t)[k].val)]

start_indices(t) == [k \in {1, 2} |-> t.index_ranges[k].start.val]

\* Mutant: the cells are read from index zero on, whatever the start.
cell_index_unshifted(t, i, j) ==
    <<N_add(0, as_FiniteIndex(i)),
      N_add(0, as_FiniteIndex(j))>>

\* [start_indices[0] + i as FiniteIndex, start_indices[1] + j as FiniteIndex]
cell_index(t, i, j) ==
    <<N_add(start_indices(t)[1], as_FiniteIndex(i)),
      N_add(start_indices(t)[2], as_FiniteIndex(j))>>

cell_index_panics(t, i, j, checks) ==
    \/ N_add_panics(start_indices(t)[1], as_FiniteIndex(i), checks)
    \/ N_add_panics(start_indices(t)[2], as_FiniteIndex(j), checks)

cell_value(t, i, j) == get_single_elem(t, cell_index(t, i, j)[1], cell_index(t, i, j)[2])

cell_panics(t, i, j, checks) ==
    cell_index_panics(t, i, j, checks) \/ cell_value(t, i, j) = Panic

\* DMatrix::from_fn fills the cells column after column.
column_major(c, nrows) == c[2] * nrows + c[1]

\* Mutant: a tensor without a finite non-negative length converts to the
\* empty matrix.
to_nalg_mat_empty_on_infinite(t, checks) ==
    IF to_nalg_mat_panics_early(t)
    THEN [result |-> DMatrix(0, 0, [c \in CellIndices(0, 0) |-> Panic]), evaluated |-> {}]
    ELSE LET nrows == finite_len(t)[1]
             ncols == finite_len(t)[2]
             failing == {c \in CellIndices(nrows, ncols) : cell_panics(t, c[1], c[2], checks)}
         IN  IF failing = {}
             THEN [result |-> DMatrix(nrows, ncols,
                                  [c \in CellIndices(nrows, ncols) |-> cell_value(t, c[1], c[2])]),
                   evaluated |-> {cell_index(t, c[1], c[2]) : c \in CellIndices(nrows, ncols)}]
             ELSE [result |-> Panic, evaluated |-> {}]

\* The outcome of to_nalg_mat, a matrix or Panic, and the index pairs at
\* which it called the value getter: all of the cells, or those up to the
\* first cell that panics.
to_nalg_mat(t, checks) ==
    IF to_nalg_mat_panics_early(t)
    THEN [result |-> Panic, evaluated |-> {}]
    ELSE LET nrows == finite_len(t)[1]
             ncols == finite_len(t)[2]
             failing == {c \in CellIndices(nrows, ncols) : cell_panics(t, c[1], c[2], checks)}
             first == CHOOSE c \in failing :
                        \A d \in failing : column_major(c, nrows) <= column_major(d, nrows)
         IN  IF failing = {}
             THEN [result |-> DMatrix(nrows, ncols,
                                  [c \in CellIndices(nrows, ncols) |-> cell_value(t, c[1], c[2])]),
                   evaluated |-> {cell_index(t, c[1], c[2]) : c \in CellIndices(nrows, ncols)}]
             ELSE [result |-> Panic,
                   evaluated |->
                        {cell_index(t, c[1], c[2]) :
                            c \in {d \in CellIndices(nrows, ncols) :
                                    \/ column_major(d, nrows) < column_major(first, nrows)
                                    \/ d = first /\ ~cell_index_panics(t, d[1], d[2], checks)}}]

\* Mutant: the numbers of rows and of columns are exchanged in the ranges.
nalgebra_mat_to_zmat_shape_swapped(mat) ==
    from_ranges_values(
        <<Range(Integer(0), Integer(as_FiniteIndex(mat.ncols))),
          Range(Integer(0), Integer(as_FiniteIndex(mat.nrows)))>>,
        [kind |-> "nalgebra_mat_to_zmat", mat |-> mat])

nalgebra_mat_to_zmat(mat) ==
    from_ranges_values(
        <<Range(Integer(0), Integer(as_FiniteIndex(mat.nrows))),
          Range(Integer(0), Integer(as_FiniteIndex(mat.ncols)))>>,
        [kind |-> "nalgebra_mat_to_zmat", mat |-> mat])

(***************************************************************************)
(* Bounds and inputs of the tensor calls.                                  *)
(***************************************************************************)
MaxDepth == 2
MaxDim == 2

FiniteRanges ==
    {Range(Integer(0), Integer(2)), Range(Integer(-1), Integer(1)),
     Range(Integer(MinInt), Integer(MaxInt)), Range(Integer(2), Integer(0))}

InfiniteRanges ==
    {Range(MOmega, MOmega), Range(MOmega, POmega), Range(POmega, MOmega),
     Range(POmega, POmega), Range(MOmega, Integer(0)), Range(POmega, Integer(0)),
     Range(Integer(0), MOmega), Range(Integer(0), POmega)}

ConstructRanges ==
    {<<r0, r1>> : r0 \in FiniteRanges \cup InfiniteRanges,
                  r1 \in FiniteRanges \cup InfiniteRanges}

SliceRanges ==
    {<<Range(Integer(0), Integer(2)), Range(Integer(-1), Integer(1))>>,
     <<Range(Integer(-1), Integer(2)), Range(MOmega, POmega)>>,
     <<Range(Integer(1), Integer(1)), Range(Integer(0), Integer(MaxInt))>>}

\* The matrices passed to nalgebra_mat_to_zmat: of at most MaxDim rows and
\* columns, filled by a user's value getter.
InputMatrices ==
    {DMatrix(r, c, [x \in CellIndices(r, c) |-> user_value_getter(g, x[1], x[2])]) :
        r \in 0 .. MaxDim, c \in 0 .. MaxDim, g \in UserValueGetters}

ProbeIndices == {MinInt, 0, MaxInt} \X {-1, 2}

(***************************************************************************)
(* The state machine.  A caller of the library calls one operation with    *)
(* any operands (op = "none": no call is under way), and then returns.     *)
(***************************************************************************)
Init ==
    /\ overflow_checks \in BOOLEAN
    /\ op = "none"
    /\ lhs = NoOperand
    /\ rhs = NoOperand
    /\ res = NoOperand
    /\ evaluated = {}

CheckedAddInt ==
    /\ op = "none"
    /\ \E a \in OmegaIntValues, b \in OmegaIntValues :
        /\ op' = "OmegaInt::checked_add"
        /\ lhs' = a
        /\ rhs' = b
        /\ res' = OmegaInt_checked_add(a, b)
    /\ UNCHANGED <<overflow_checks, evaluated>>

CheckedSubInt ==
    /\ op = "none"
    /\ \E a \in OmegaIntValues, b \in OmegaIntValues :
        /\ op' = "OmegaInt::checked_sub"
        /\ lhs' = a
        /\ rhs' = b
        /\ res' = OmegaInt_checked_sub(a, b)
    /\ UNCHANGED <<overflow_checks, evaluated>>

CheckedMulInt ==
    /\ op = "none"
    /\ \E a \in OmegaIntValues, b \in OmegaIntValues :
        /\ op' = "OmegaInt::checked_mul"
        /\ lhs' = a
        /\ rhs' = b
        /\ res' = OmegaInt_checked_mul(a, b)
    /\ UNCHANGED <<overflow_checks, evaluated>>

CheckedDivInt ==
    /\ op = "none"
    /\ \E a \in OmegaIntValues, b \in OmegaIntValues :
        /\ op' = "OmegaInt::checked_div"
        /\ lhs' = a
        /\ rhs' = b
        /\ res' = OmegaInt_checked_div(a, b)
    /\ UNCHANGED <<overflow_checks, evaluated>>

NegInt ==
    /\ op = "none"
    /\ \E a \in OmegaIntValues :
        /\ op' = "OmegaInt::neg"
        /\ lhs' = a
        /\ rhs' = NoOperand
        /\ res' = OmegaInt_neg(a, overflow_checks)
    /\ UNCHANGED <<overflow_checks, evaluated>>

\* -(-v): the second negation runs only if the first returned.
NegNegInt ==
    /\ op = "none"
    /\ \E a \in OmegaIntValues :
        /\ op' = "OmegaInt::neg.neg"
        /\ lhs' = a
        /\ rhs' = NoOperand
        /\ res' = IF OmegaInt_neg(a, overflow_checks) = Panic THEN Panic
                  ELSE OmegaInt_neg(OmegaInt_neg(a, overflow_checks), overflow_checks)
    /\ UNCHANGED <<overflow_checks, evaluated>>

CheckedAddUInt ==
    /\ op = "none"
    /\ \E a \in OmegaUIntValues, b \in OmegaUIntValues :
        /\ op' = "OmegaUInt::checked_add"
        /\ lhs' = a
        /\ rhs' = b
        /\ res' = OmegaUInt_checked_add(a, b)
    /\ UNCHANGED <<overflow_checks, evaluated>>

CheckedSubUInt ==
    /\ op = "none"
    /\ \E a \in OmegaUIntValues, b \in OmegaUIntValues :
        /\ op' = "OmegaUInt::checked_sub"
        /\ lhs' = a
        /\ rhs' = b
        /\ res' = OmegaUInt_checked_sub(a, b)
    /\ UNCHANGED <<overflow_checks, evaluated>>

CheckedMulUInt ==
    /\ op = "none"
    /\ \E a \in OmegaUIntValues, b \in OmegaUIntValues :
        /\ op' = "OmegaUInt::checked_mul"
        /\ lhs' = a
        /\ rhs' = b
        /\ res' = OmegaUInt_checked_mul(a, b)
    /\ UNCHANGED <<overflow_checks, evaluated>>

CheckedDivUInt ==
    /\ op = "none"
    /\ \E a \in OmegaUIntValues, b \in OmegaUIntValues :
        /\ op' = "OmegaUInt::checked_div"
        /\ lhs' = a
        /\ rhs' = b
        /\ res' = OmegaUInt_checked_div(a, b)
    /\ UNCHANGED <<overflow_checks, evaluated>>

AddInt ==
    /\ op = "none"
    /\ \E a \in OmegaIntValues, b \in OmegaIntValues :
        /\ op' = "OmegaInt::add"
        /\ lhs' = a
        /\ rhs' = b
        /\ res' = OmegaInt_add(a, b)
    /\ UNCHANGED <<overflow_checks, evaluated>>

SubInt ==
    /\ op = "none"
    /\ \E a \in OmegaIntValues, b \in OmegaIntValues :
        /\ op' = "OmegaInt::sub"
        /\ lhs' = a
        /\ rhs' = b
        /\ res' = OmegaInt_sub(a, b)
    /\ UNCHANGED <<overflow_checks, evaluated>>

MulInt ==
    /\ op = "none"
    /\ \E a \in OmegaIntValues, b \in OmegaIntValues :
        /\ op' = "OmegaInt::mul"
        /\ lhs' = a
        /\ rhs' = b
        /\ res' = OmegaInt_mul(a, b)
    /\ UNCHANGED <<overflow_checks, evaluated>>

DivInt ==
    /\ op = "none"
    /\ \E a \in OmegaIntValues, b \in OmegaIntValues :
        /\ op' = "OmegaInt::div"
        /\ lhs' = a
        /\ rhs' = b
        /\ res' = OmegaInt_div(a, b)
    /\ UNCHANGED <<overflow_checks, evaluated>>

AddUInt ==
    /\ op = "none"
    /\ \E a \in OmegaUIntValues, b \in OmegaUIntValues :
        /\ op' = "OmegaUInt::add"
        /\ lhs' = a
        /\ rhs' = b
        /\ res' = OmegaUInt_add(a, b)
    /\ UNCHANGED <<overflow_checks, evaluated>>

SubUInt ==
    /\ op = "none"
    /\ \E a \in OmegaUIntValues, b \in OmegaUIntValues :
        /\ op' = "OmegaUInt::sub"
        /\ lhs' = a
        /\ rhs' = b
        /\ res' = OmegaUInt_sub(a, b)
    /\ UNCHANGED <<overflow_checks, evaluated>>

MulUInt ==
    /\ op = "none"
    /\ \E a \in OmegaUIntValues, b \in OmegaUIntValues :
        /\ op' = "OmegaUInt::mul"
        /\ lhs' = a
        /\ rhs' = b
        /\ res' = OmegaUInt_mul(a, b)
    /\ UNCHANGED <<overflow_checks, evaluated>>

DivUInt ==
    /\ op = "none"
    /\ \E a \in OmegaUIntValues, b \in OmegaUIntValues :
        /\ op' = "OmegaUInt::div"
        /\ lhs' = a
        /\ rhs' = b
        /\ res' = OmegaUInt_div(a, b)
    /\ UNCHANGED <<overflow_checks, evaluated>>

FromRangesValues ==
    /\ op = "none"
    /\ \E r \in ConstructRanges, g \in UserValueGetters :
        /\ op' = "ZTensor::from_ranges_values"
        /\ lhs' = NoOperand
        /\ rhs' = r
        /\ res' = from_ranges_values(r, UserClosure(g))
    /\ UNCHANGED <<overflow_checks, evaluated>>

\* The tensor calls take the tensor (or the matrix) the call before returned.
GetSlice ==
    /\ IsTensor(res)
    /\ closure_depth(res.value_getter) < MaxDepth
    /\ \E r \in SliceRanges :
        /\ op' = "ZTensor::get_slice"
        /\ lhs' = res
        /\ rhs' = r
        /\ res' = get_slice(res, r)
    /\ UNCHANGED <<overflow_checks, evaluated>>

ConjTrans ==
    /\ IsTensor(res)
    /\ closure_depth(res.value_getter) < MaxDepth
    /\ op' = "ZMatrix::conj_trans"
    /\ lhs' = res
    /\ rhs' = NoOperand
    /\ res' = conj_trans(res)
    /\ UNCHANGED <<overflow_checks, evaluated>>

ConjTransConjTrans ==
    /\ IsTensor(res)
    /\ closure_depth(res.value_getter) + 1 < MaxDepth
    /\ op' = "ZMatrix::conj_trans.conj_trans"
    /\ lhs' = res
    /\ rhs' = NoOperand
    /\ res' = conj_trans(conj_trans(res))
    /\ UNCHANGED <<overflow_checks, evaluated>>

GetSingleElem ==
    /\ IsTensor(res)
    /\ \E idx \in ProbeIndices :
        /\ op' = "ZTensor::get_single_elem"
        /\ lhs' = res
        /\ rhs' = idx
        /\ res' = get_single_elem(res, idx[1], idx[2])
        /\ evaluated' = {idx}
    /\ UNCHANGED overflow_checks

ToNalgMat ==
    /\ IsTensor(res)
    /\ op' = "ToNAlgMat::to_nalg_mat"
    /\ lhs' = res
    /\ rhs' = NoOperand
    /\ res' = to_nalg_mat(res, overflow_checks).result
    /\ evaluated' = to_nalg_mat(res, overflow_checks).evaluated
    /\ UNCHANGED overflow_checks

NalgebraMatToZmat ==
    /\ op = "none"
    /\ \E m \in InputMatrices :
        /\ op' = "nalgebra_mat_to_zmat"
        /\ lhs' = m
        /\ rhs' = NoOperand
        /\ res' = nalgebra_mat_to_zmat(m)
    /\ UNCHANGED <<overflow_checks, evaluated>>

\* nalgebra_mat_to_zmat(t.to_nalg_mat()): the second call runs only if the
\* first returned.
TensorRoundTrip ==
    /\ IsTensor(res)
    /\ op' = "to_nalg_mat.nalgebra_mat_to_zmat"
    /\ lhs' = res
    /\ rhs' = NoOperand
    /\ res' = IF to_nalg_mat(res, overflow_checks).result = Panic THEN Panic
              ELSE nalgebra_mat_to_zmat(to_nalg_mat(res, overflow_checks).result)
    /\ evaluated' = to_nalg_mat(res, overflow_checks).evaluated
    /\ UNCHANGED overflow_checks

\* nalgebra_mat_to_zmat(m).to_nalg_mat()
MatrixRoundTrip ==
    /\ op = "none"
    /\ \E m \in InputMatrices :
        /\ op' = "nalgebra_mat_to_zmat.to_nalg_mat"
        /\ lhs' = m
        /\ rhs' = NoOperand
        /\ res' = to_nalg_mat(nalgebra_mat_to_zmat(m), overflow_checks).result
        /\ evaluated' = to_nalg_mat(nalgebra_mat_to_zmat(m), overflow_checks).evaluated
    /\ UNCHANGED overflow_checks

Return ==
    /\ op # "none"
    /\ op' = "none"
    /\ lhs' = NoOperand
    /\ rhs' = NoOperand
    /\ res' = NoOperand
    /\ evaluated' = {}
    /\ UNCHANGED overflow_checks

Next ==
    \/ CheckedAddInt
    \/ CheckedSubInt
    \/ CheckedMulInt
    \/ CheckedDivInt
    \/ NegInt
    \/ NegNegInt
    \/ CheckedAddUInt
    \/ CheckedSubUInt
    \/ CheckedMulUInt
    \/ CheckedDivUInt
    \/ AddInt
    \/ SubInt
    \/ MulInt
    \/ DivInt
    \/ AddUInt
    \/ SubUInt
    \/ MulUInt
    \/ DivUInt
    \/ FromRangesValues
    \/ GetSlice
    \/ ConjTrans
    \/ ConjTransConjTrans
    \/ GetSingleElem
    \/ ToNalgMat
    \/ NalgebraMatToZmat
    \/ TensorRoundTrip
    \/ MatrixRoundTrip
    \/ Return

Spec == Init /\ [][Next]_vars

(***************************************************************************)
(* Vocabulary of the properties.                                           *)
(***************************************************************************)
IsInfinite(v) == v \in {POmega, MOmega}
IsFinite(v) == v \in {Integer(n) : n \in NInt}
Opposite(v) == IF v = POmega THEN MOmega ELSE POmega

\* The quotient of a by b (b # 0) rounded toward zero, stated by its
\* remainder: smaller than b in magnitude and of the sign of a.
IsQuotient(q, a, b) ==
    /\ AbsVal(a - q * b) < AbsVal(b)
    /\ (a - q * b = 0 \/ (a - q * b < 0) = (a < 0))

(***************************************************************************)
(* C1: signed checked_add of two infinities: two same-signed infinities    *)
(* yield that same infinity (POmega + POmega = POmega, MOmega + MOmega =   *)
(* MOmega), two opposite-signed infinities yield no result.                *)
(* Violated by the code: MOmega + MOmega returns Some(POmega).             *)
(***************************************************************************)
C1_AddOfTwoInfinities ==
    (op = "OmegaInt::checked_add" /\ IsInfinite(lhs) /\ IsInfinite(rhs)) =>
        res = IF lhs = rhs THEN Some(lhs) ELSE None

(***************************************************************************)
(* C2: signed subtraction is addition of the negation: whenever the        *)
(* negation of b is representable, checked_sub(a, b) returns exactly what  *)
(* checked_add(a, -b) returns, no result included; POmega - POmega is no   *)
(* result and POmega - MOmega is POmega.                                   *)
(***************************************************************************)
C2_SubIsAddOfNegation ==
    (op = "OmegaInt::checked_sub" /\ (IsFinite(rhs) => -rhs.val \in NInt)) =>
        /\ res = OmegaInt_checked_add(lhs, OmegaInt_neg(rhs, overflow_checks))
        /\ (lhs = POmega /\ rhs = POmega) => res = None
        /\ (lhs = POmega /\ rhs = MOmega) => res = Some(POmega)

C2_Witness ==
    /\ op = "OmegaInt::checked_sub"
    /\ lhs = Integer(MinInt)
    /\ rhs = Integer(1)
    /\ res = None

(***************************************************************************)
(* C3: unsigned multiplication is commutative: checked_mul(a, b) and       *)
(* checked_mul(b, a) give the same outcome for all a, b.                   *)
(* Violated by the code: Natural(x) * Omega is no result and               *)
(* Omega * Natural(x) is Omega, for x # 0.                                 *)
(***************************************************************************)
C3_UnsignedMulCommutes ==
    op = "OmegaUInt::checked_mul" => res = OmegaUInt_checked_mul(rhs, lhs)

(***************************************************************************)
(* C4: unsigned checked_add is Omega if either operand is Omega, and for   *)
(* finite operands Natural(a+b) when a+b fits the underlying type and no   *)
(* result when it does not.                                                *)
(* Violated by the code: an overflowing finite sum returns Some(Omega).    *)
(***************************************************************************)
C4_UnsignedAdd ==
    op = "OmegaUInt::checked_add" =>
        res = IF lhs = Omega \/ rhs = Omega THEN Some(Omega)
              ELSE IF lhs.val + rhs.val <= MaxUInt THEN Some(Natural(lhs.val + rhs.val))
              ELSE None

(***************************************************************************)
(* C5: signed checked_add of two finite values is Integer(a+b) when a+b    *)
(* is within the range of the underlying type, and no result otherwise.    *)
(***************************************************************************)
C5_FiniteAdd ==
    (op = "OmegaInt::checked_add" /\ IsFinite(lhs) /\ IsFinite(rhs)) =>
        res = IF MinInt <= lhs.val + rhs.val /\ lhs.val + rhs.val <= MaxInt
              THEN Some(Integer(lhs.val + rhs.val))
              ELSE None

C5_Witness ==
    /\ op = "OmegaInt::checked_add"
    /\ lhs = Integer(MaxInt)
    /\ rhs = Integer(1)
    /\ res = None

(***************************************************************************)
(* C6: signed checked_add with exactly one infinite operand returns that   *)
(* infinity, whatever the finite operand and on whichever side it is.      *)
(***************************************************************************)
C6_AddOneInfinity ==
    /\ (op = "OmegaInt::checked_add" /\ IsInfinite(lhs) /\ IsFinite(rhs)) =>
            res = Some(lhs)
    /\ (op = "OmegaInt::checked_add" /\ IsFinite(lhs) /\ IsInfinite(rhs)) =>
            res = Some(rhs)

C6_Witness ==
    /\ op = "OmegaInt::checked_add"
    /\ lhs = Integer(MaxInt)
    /\ rhs = MOmega
    /\ res = Some(MOmega)

(***************************************************************************)
(* C7: signed checked_mul.  An infinity times a positive finite value is   *)
(* that infinity, times a negative finite value the opposite infinity,     *)
(* times zero no result, in either operand order; infinity times infinity  *)
(* is POmega for equal signs and MOmega otherwise; finite times finite is  *)
(* the product when it is in range and no result otherwise.                *)
(***************************************************************************)
C7_InfinityTimesFinite(inf, x) ==
    IF x > 0 THEN Some(inf)
    ELSE IF x < 0 THEN Some(Opposite(inf))
    ELSE None

C7_SignedMul ==
    op = "OmegaInt::checked_mul" =>
        /\ (IsInfinite(lhs) /\ IsInfinite(rhs)) =>
                res = Some(IF lhs = rhs THEN POmega ELSE MOmega)
        /\ (IsInfinite(lhs) /\ IsFinite(rhs)) =>
                res = C7_InfinityTimesFinite(lhs, rhs.val)
        /\ (IsFinite(lhs) /\ IsInfinite(rhs)) =>
                res = C7_InfinityTimesFinite(rhs, lhs.val)
        /\ (IsFinite(lhs) /\ IsFinite(rhs)) =>
                res = IF MinInt <= lhs.val * rhs.val /\ lhs.val * rhs.val <= MaxInt
                      THEN Some(Integer(lhs.val * rhs.val))
                      ELSE None

C7_Witness ==
    /\ op = "OmegaInt::checked_mul"
    /\ lhs = Integer(-1)
    /\ rhs = MOmega
    /\ res = Some(POmega)

(***************************************************************************)
(* C8: signed checked_div.  A finite value divided by either infinity is   *)
(* Integer(0); an infinity divided by a finite non-zero value is the       *)
(* infinity whose sign is the product of the two signs; an infinity        *)
(* divided by zero, and an infinity divided by an infinity, are no result; *)
(* finite by finite is the underlying checked divide: no result on a zero  *)
(* divisor, and otherwise the quotient rounded toward zero when the type   *)
(* holds it.                                                               *)
(***************************************************************************)
C8_SignedDiv ==
    op = "OmegaInt::checked_div" =>
        /\ (IsFinite(lhs) /\ IsInfinite(rhs)) => res = Some(Integer(0))
        /\ (IsInfinite(lhs) /\ IsFinite(rhs) /\ rhs.val > 0) => res = Some(lhs)
        /\ (IsInfinite(lhs) /\ IsFinite(rhs) /\ rhs.val < 0) => res = Some(Opposite(lhs))
        /\ (IsInfinite(lhs) /\ IsFinite(rhs) /\ rhs.val = 0) => res = None
        /\ (IsInfinite(lhs) /\ IsInfinite(rhs)) => res = None
        /\ (IsFinite(lhs) /\ IsFinite(rhs) /\ rhs.val = 0) => res = None
        /\ (IsFinite(lhs) /\ IsFinite(rhs) /\ rhs.val # 0) =>
                \/ \E q \in NInt : IsQuotient(q, lhs.val, rhs.val) /\ res = Some(Integer(q))
                \/ (\A q \in NInt : ~IsQuotient(q, lhs.val, rhs.val)) /\ res = None

C8_Witness ==
    /\ op = "OmegaInt::checked_div"
    /\ lhs = MOmega
    /\ rhs = Integer(-1)
    /\ res = Some(POmega)

(***************************************************************************)
(* C9 as stated: negate(POmega) = MOmega, negate(MOmega) = POmega, and     *)
(* negate(negate(v)) = v for every extended signed value v.                *)
(* Violated: with overflow checks, -Integer(MinInt) panics.                *)
(***************************************************************************)
C9_NegInvolutionAll ==
    /\ (op = "OmegaInt::neg" /\ lhs = POmega) => res = MOmega
    /\ (op = "OmegaInt::neg" /\ lhs = MOmega) => res = POmega
    /\ op = "OmegaInt::neg.neg" => res = lhs

(***************************************************************************)
(* C9 amended: negate(POmega) = MOmega, negate(MOmega) = POmega, and       *)
(* negate(negate(v)) = v for every extended signed value v other than      *)
(* Integer(MIN), MIN the least value of the underlying type; negating      *)
(* Integer(MIN) fails fatally in a build with overflow checks and returns  *)
(* Integer(MIN) in a build without them.                                   *)
(***************************************************************************)
C9_NegInvolution ==
    /\ (op = "OmegaInt::neg" /\ lhs = POmega) => res = MOmega
    /\ (op = "OmegaInt::neg" /\ lhs = MOmega) => res = POmega
    /\ (op = "OmegaInt::neg.neg" /\ lhs # Integer(MinInt)) => res = lhs
    /\ (op \in {"OmegaInt::neg", "OmegaInt::neg.neg"} /\ lhs = Integer(MinInt)) =>
            res = IF overflow_checks THEN Panic ELSE Integer(MinInt)

C9_Witness ==
    /\ op = "OmegaInt::neg.neg"
    /\ lhs = Integer(MaxInt)
    /\ res = Integer(MaxInt)

(***************************************************************************)
(* C10: unsigned checked_sub: Omega - Natural(x) = Omega; Natural(x) -     *)
(* Omega and Omega - Omega are no result; Natural(a) - Natural(b) is       *)
(* Natural(a-b) when a >= b and no result when a < b.                      *)
(***************************************************************************)
C10_UnsignedSub ==
    op = "OmegaUInt::checked_sub" =>
        res = CASE lhs = Omega /\ rhs # Omega -> Some(Omega)
                [] lhs # Omega /\ rhs = Omega -> None
                [] lhs = Omega /\ rhs = Omega -> None
                [] OTHER -> IF lhs.val >= rhs.val
                            THEN Some(Natural(lhs.val - rhs.val))
                            ELSE None

C10_Witness ==
    /\ op = "OmegaUInt::checked_sub"
    /\ lhs = Natural(0)
    /\ rhs = Natural(1)
    /\ res = None

(***************************************************************************)
(* C11: unsigned checked_div over all operand pairs: Natural(0) /          *)
(* Natural(y) = Natural(0) for y # 0; Natural(x) / Natural(0) is no result *)
(* for x # 0; Natural(0) / Natural(0) is no result; Omega / Natural(y) =   *)
(* Omega for every finite y; Natural(x) / Omega = Natural(0) for every     *)
(* finite x; Omega / Omega is no result; otherwise the underlying checked  *)
(* divide (the quotient rounded down).                                     *)
(***************************************************************************)
C11_UnsignedDiv ==
    op = "OmegaUInt::checked_div" =>
        /\ (lhs = Omega /\ rhs = Omega) => res = None
        /\ (lhs = Omega /\ rhs # Omega) => res = Some(Omega)
        /\ (lhs # Omega /\ rhs = Omega) => res = Some(Natural(0))
        /\ (lhs # Omega /\ rhs # Omega) =>
            /\ (lhs.val = 0 /\ rhs.val # 0) => res = Some(Natural(0))
            /\ (lhs.val # 0 /\ rhs.val = 0) => res = None
            /\ (lhs.val = 0 /\ rhs.val = 0) => res = None
            /\ (lhs.val # 0 /\ rhs.val # 0) =>
                    \E q \in NUInt :
                        /\ q * rhs.val <= lhs.val
                        /\ lhs.val < (q + 1) * rhs.val
                        /\ res = Some(Natural(q))

C11_Witness ==
    /\ op = "OmegaUInt::checked_div"
    /\ lhs = Natural(1)
    /\ rhs = Omega
    /\ res = Some(Natural(0))

(***************************************************************************)
(* C12: for add, sub, mul and div of both types and every operand pair,    *)
(* the checked form never panics (it returns a value or no result), and    *)
(* the operator returns v exactly when the checked form returns Some(v)    *)
(* and panics exactly when the checked form returns no result.             *)
(***************************************************************************)
C12_CheckedOps ==
    {"OmegaInt::checked_add", "OmegaInt::checked_sub", "OmegaInt::checked_mul",
     "OmegaInt::checked_div", "OmegaUInt::checked_add", "OmegaUInt::checked_sub",
     "OmegaUInt::checked_mul", "OmegaUInt::checked_div"}

C12_CheckedFormOf(o, a, b) ==
    CASE o = "OmegaInt::add" -> OmegaInt_checked_add(a, b)
      [] o = "OmegaInt::sub" -> OmegaInt_checked_sub(a, b)
      [] o = "OmegaInt::mul" -> OmegaInt_checked_mul(a, b)
      [] o = "OmegaInt::div" -> OmegaInt_checked_div(a, b)
      [] o = "OmegaUInt::add" -> OmegaUInt_checked_add(a, b)
      [] o = "OmegaUInt::sub" -> OmegaUInt_checked_sub(a, b)
      [] o = "OmegaUInt::mul" -> OmegaUInt_checked_mul(a, b)
      [] o = "OmegaUInt::div" -> OmegaUInt_checked_div(a, b)

C12_UncheckedOps ==
    {"OmegaInt::add", "OmegaInt::sub", "OmegaInt::mul", "OmegaInt::div",
     "OmegaUInt::add", "OmegaUInt::sub", "OmegaUInt::mul", "OmegaUInt::div"}

C12_CheckedTotalOperatorAgrees ==
    /\ op \in C12_CheckedOps =>
            /\ res # Panic
            /\ res = None
               \/ res \in {Some(v) : v \in OmegaIntValues \cup OmegaUIntValues}
    /\ op \in C12_UncheckedOps =>
            /\ C12_CheckedFormOf(op, lhs, rhs) # Panic
            /\ (res = Panic) <=> (C12_CheckedFormOf(op, lhs, rhs) = None)
            /\ \A v \in OmegaIntValues \cup OmegaUIntValues :
                    (res = v) <=> (C12_CheckedFormOf(op, lhs, rhs) = Some(v))

C12_Witness ==
    /\ op = "OmegaInt::div"
    /\ lhs = POmega
    /\ rhs = MOmega
    /\ res = Panic

(***************************************************************************)
(* Vocabulary of the tensor properties.                                    *)
(***************************************************************************)
AllIndices == NInt \X NInt

\* The conjugate of an element, and a failed access for a failed access.
ConjugateOf(e) == IF e = Panic THEN Panic ELSE Complex(e.re, 0 - e.im)

\* The tensor a chain of slices started from.
RECURSIVE SlicedFrom(_)
SlicedFrom(t) ==
    IF t.value_getter.kind = "get_slice" THEN SlicedFrom(t.value_getter.self2) ELSE t

(***************************************************************************)
(* C13: slicing changes only the advertised extents: get_slice(t, r) has   *)
(* the ranges r, and its element at every finite index pair, inside or     *)
(* outside r and t's ranges, is t's element at the same index pair; the    *)
(* same holds of a chain of slices and the tensor the chain started from.  *)
(***************************************************************************)
C13_SliceKeepsElements ==
    op = "ZTensor::get_slice" =>
        /\ get_index_ranges(res) = rhs
        /\ \A idx \in AllIndices :
            /\ get_single_elem(res, idx[1], idx[2]) = get_single_elem(lhs, idx[1], idx[2])
            /\ get_single_elem(res, idx[1], idx[2])
                    = get_single_elem(SlicedFrom(lhs), idx[1], idx[2])

C13_Witness ==
    /\ op = "ZTensor::get_slice"
    /\ lhs.value_getter.kind = "get_slice"
    /\ SlicedFrom(lhs).value_getter = UserClosure("re_im_of_index")
    /\ get_index_ranges(res) = <<Range(Integer(0), Integer(2)), Range(Integer(-1), Integer(1))>>
    /\ get_index_ranges(lhs) # get_index_ranges(res)
    /\ get_single_elem(res, MinInt, MaxInt) = Complex(MinInt, MaxInt)

(***************************************************************************)
(* C14: conj_trans of a tensor with ranges [R0, R1] has the ranges         *)
(* [R1, R0], and its element at every finite (i, j) is the complex         *)
(* conjugate of the tensor's element at (j, i).                            *)
(***************************************************************************)
C14_ConjTrans ==
    op = "ZMatrix::conj_trans" =>
        /\ get_index_ranges(res)
                = <<get_index_ranges(lhs)[2], get_index_ranges(lhs)[1]>>
        /\ \A idx \in AllIndices :
                get_single_elem(res, idx[1], idx[2])
                    = ConjugateOf(get_single_elem(lhs, idx[2], idx[1]))

C14_Witness ==
    /\ op = "ZMatrix::conj_trans"
    /\ get_index_ranges(lhs) = <<Range(Integer(0), Integer(2)), Range(MOmega, POmega)>>
    /\ get_index_ranges(res) = <<Range(MOmega, POmega), Range(Integer(0), Integer(2))>>
    /\ get_single_elem(lhs, 2, 1) = Complex(2, 1)
    /\ get_single_elem(res, 1, 2) = Complex(2, -1)

(***************************************************************************)
(* C15: conj_trans is an involution: conj_trans(conj_trans(t)) has the     *)
(* ranges of t, in their order, and the element of t at every finite index *)
(* pair.                                                                   *)
(***************************************************************************)
C15_ConjTransInvolution ==
    op = "ZMatrix::conj_trans.conj_trans" =>
        /\ get_index_ranges(res) = get_index_ranges(lhs)
        /\ \A idx \in AllIndices :
                get_single_elem(res, idx[1], idx[2]) = get_single_elem(lhs, idx[1], idx[2])

C15_Witness ==
    /\ op = "ZMatrix::conj_trans.conj_trans"
    /\ get_index_ranges(lhs) = <<Range(Integer(0), Integer(2)), Range(MOmega, POmega)>>
    /\ get_index_ranges(res) = get_index_ranges(lhs)
    /\ get_single_elem(lhs, 2, 1) = Complex(2, 1)
    /\ get_single_elem(res, 2, 1) = Complex(2, 1)

(***************************************************************************)
(* Vocabulary of the claims about the dense-matrix bridge.                 *)
(***************************************************************************)
HasInfiniteEndpoint(t) ==
    \E k \in {1, 2} :
        IsInfinite(t.index_ranges[k].start) \/ IsInfinite(t.index_ranges[k].end)

HasFiniteRanges(t) ==
    \A k \in {1, 2} :
        IsFinite(t.index_ranges[k].start) /\ IsFinite(t.index_ranges[k].end)

RangeStart(t, k) == t.index_ranges[k].start.val
RangeEnd(t, k) == t.index_ranges[k].end.val
RangeLen(t, k) == RangeEnd(t, k) - RangeStart(t, k)

\* The index pairs inside the finite ranges of t.
InRange(t) ==
    {idx \in AllIndices :
        \A k \in {1, 2} : RangeStart(t, k) <= idx[k] /\ idx[k] < RangeEnd(t, k)}

ElementAt(t, idx) == get_single_elem(t, idx[1], idx[2])

\* Every element inside the ranges of t can be read.
Readable(t) == \A idx \in InRange(t) : ElementAt(t, idx) # Panic

\* m is the matrix of the elements inside the ranges of t: of as many rows
\* and columns as the ranges are long, cell (i, j) the element at
\* (s0 + i, s1 + j).
IsMatrixOf(m, t) ==
    /\ IsMatrix(m)
    /\ m.nrows = RangeLen(t, 1)
    /\ m.ncols = RangeLen(t, 2)
    /\ \A i \in 0 .. RangeLen(t, 1) - 1 : \A j \in 0 .. RangeLen(t, 2) - 1 :
            m.cells[<<i, j>>] = ElementAt(t, <<RangeStart(t, 1) + i, RangeStart(t, 2) + j>>)

(***************************************************************************)
(* C16: to_nalg_mat on a tensor of which any range endpoint, start or end  *)
(* of either dimension, is POmega or MOmega fails fatally, and the value   *)
(* getter has been evaluated at no index when it does.                     *)
(***************************************************************************)
C16_InfiniteExtentFails ==
    (op = "ToNAlgMat::to_nalg_mat" /\ HasInfiniteEndpoint(lhs))
        => (res = Panic /\ evaluated = {})

C16_Witness ==
    /\ op = "ToNAlgMat::to_nalg_mat"
    /\ get_index_ranges(lhs) = <<Range(Integer(0), Integer(2)), Range(Integer(0), POmega)>>
    /\ ElementAt(lhs, <<0, 0>>) # Panic
    /\ res = Panic
    /\ evaluated = {}

(***************************************************************************)
(* C17 as stated: for every tensor t of finite ranges,                     *)
(* nalgebra_mat_to_zmat(to_nalg_mat(t)) is a tensor whose element at every *)
(* index pair inside the ranges of t is the element of t at that pair.     *)
(***************************************************************************)
C17_RoundTripSameIndex ==
    (op = "to_nalg_mat.nalgebra_mat_to_zmat" /\ HasFiniteRanges(lhs))
        => /\ IsTensor(res)
           /\ \A idx \in InRange(lhs) : ElementAt(res, idx) = ElementAt(lhs, idx)

(***************************************************************************)
(* C17 amended: for every tensor t of finite ranges [s0, e0) x [s1, e1),   *)
(* if both lengths e0 - s0 and e1 - s1 are between 0 and the greatest      *)
(* FiniteIndex and every element inside the ranges can be read, then       *)
(* nalgebra_mat_to_zmat(to_nalg_mat(t)) is a tensor of the ranges          *)
(* [0, e0 - s0) x [0, e1 - s1) whose element at (i - s0, j - s1) is the    *)
(* element of t at (i, j), for every (i, j) inside the ranges of t;        *)
(* otherwise the conversion fails fatally.                                 *)
(***************************************************************************)
C17_RoundTripShifted ==
    (op = "to_nalg_mat.nalgebra_mat_to_zmat" /\ HasFiniteRanges(lhs))
        => IF /\ \A k \in {1, 2} : 0 <= RangeLen(lhs, k) /\ RangeLen(lhs, k) <= MaxInt
              /\ Readable(lhs)
           THEN /\ IsTensor(res)
                /\ get_index_ranges(res) =
                        <<Range(Integer(0), Integer(RangeLen(lhs, 1))),
                          Range(Integer(0), Integer(RangeLen(lhs, 2)))>>
                /\ \A idx \in InRange(lhs) :
                        ElementAt(res, <<idx[1] - RangeStart(lhs, 1), idx[2] - RangeStart(lhs, 2)>>)
                            = ElementAt(lhs, idx)
           ELSE res = Panic

C17_Witness ==
    /\ op = "to_nalg_mat.nalgebra_mat_to_zmat"
    /\ get_index_ranges(lhs) = <<Range(Integer(-1), Integer(1)), Range(Integer(0), Integer(2))>>
    /\ IsTensor(res)
    /\ ElementAt(lhs, <<-1, 1>>) = Complex(-1, 1)
    /\ ElementAt(res, <<0, 1>>) = Complex(-1, 1)

(***************************************************************************)
(* C18 as stated: for a tensor of finite ranges [s0, e0) x [s1, e1) with   *)
(* e0 >= s0 and e1 >= s1, to_nalg_mat returns the matrix of e0 - s0 rows   *)
(* and e1 - s1 columns whose cell (i, j) is the element at (s0+i, s1+j).   *)
(***************************************************************************)
C18_ShapeAndCells ==
    (/\ op = "ToNAlgMat::to_nalg_mat"
     /\ HasFiniteRanges(lhs)
     /\ \A k \in {1, 2} : RangeEnd(lhs, k) >= RangeStart(lhs, k))
        => IsMatrixOf(res, lhs)

(***************************************************************************)
(* C18 amended: for a tensor of finite ranges [s0, e0) x [s1, e1) with     *)
(* e0 >= s0 and e1 >= s1, if e0 - s0 and e1 - s1 are at most the greatest  *)
(* FiniteIndex and every element inside the ranges can be read, then       *)
(* to_nalg_mat returns the matrix of e0 - s0 rows and e1 - s1 columns      *)
(* whose cell (i, j) is the element at (s0+i, s1+j); otherwise it fails    *)
(* fatally.                                                                *)
(***************************************************************************)
C18_ShapeAndCellsRepresentable ==
    (/\ op = "ToNAlgMat::to_nalg_mat"
     /\ HasFiniteRanges(lhs)
     /\ \A k \in {1, 2} : RangeEnd(lhs, k) >= RangeStart(lhs, k))
        => IF (\A k \in {1, 2} : RangeLen(lhs, k) <= MaxInt) /\ Readable(lhs)
           THEN IsMatrixOf(res, lhs)
           ELSE res = Panic

C18_Witness ==
    /\ op = "ToNAlgMat::to_nalg_mat"
    /\ get_index_ranges(lhs) = <<Range(Integer(0), Integer(2)), Range(Integer(-1), Integer(1))>>
    /\ IsMatrix(res)
    /\ res.nrows = 2
    /\ res.ncols = 2
    /\ res.cells[<<1, 0>>] = Complex(1, -1)
    /\ evaluated = InRange(lhs)

(***************************************************************************)
(* C19: for every dense matrix m of r rows and c columns,                  *)
(* nalgebra_mat_to_zmat(m) is a tensor of the ranges [0, r) x [0, c) whose *)
(* element at each (i, j) inside them is m[i, j], and                      *)
(* to_nalg_mat(nalgebra_mat_to_zmat(m)) is m, in shape and in every cell.  *)
(***************************************************************************)
C19_MatrixRoundTrip ==
    /\ op = "nalgebra_mat_to_zmat"
            => /\ IsTensor(res)
               /\ get_index_ranges(res) =
                    <<Range(Integer(0), Integer(lhs.nrows)), Range(Integer(0), Integer(lhs.ncols))>>
               /\ \A c \in CellIndices(lhs.nrows, lhs.ncols) :
                    ElementAt(res, c) = lhs.cells[c]
    /\ op = "nalgebra_mat_to_zmat.to_nalg_mat"
            => /\ IsMatrix(res)
               /\ res.nrows = lhs.nrows
               /\ res.ncols = lhs.ncols
               /\ \A c \in CellIndices(lhs.nrows, lhs.ncols) : res.cells[c] = lhs.cells[c]

C19_Witness ==
    /\ op = "nalgebra_mat_to_zmat.to_nalg_mat"
    /\ lhs.nrows = 1
    /\ lhs.ncols = 2
    /\ lhs.cells[<<0, 1>>] = Complex(10, 0)
    /\ res = lhs

(***************************************************************************)
(* C20: for any tensor obtained by get_slice, conj_trans and               *)
(* nalgebra_mat_to_zmat from value getters that are total, get_single_elem *)
(* returns a value, without failing, at every finite index pair, negative  *)
(* ones and ones outside the ranges of the tensor included.                *)
(***************************************************************************)
C20_GeneratorTotal ==
    /\ op = "ZTensor::get_single_elem" => res # Panic
    /\ IsTensor(res) => \A idx \in AllIndices : ElementAt(res, idx) # Panic

=============================================================================
